---------------------------- MODULE Spec2Model ----------------------------
(***************************************************************************)
(* A model of scripts/module-generator.py: the command line entry point    *)
(* (main), the generator construction (BaseGenerator.__init__), the four   *)
(* stack generators (parse_fields, generate and their templates) and the   *)
(* file writer (write_file).                                               *)
(*                                                                         *)
(* Text is a TLA+ string and the Python string methods are defined on it   *)
(* character by character.  The content of an artifact is a record holding *)
(* the name of its template and every interpolated value of that template; *)
(* the literal text between the interpolated values is fixed by the        *)
(* template name.                                                          *)
(***************************************************************************)
EXTENDS Integers, Sequences, FiniteSets, TLC

(***************************************************************************)
(* Python str methods.  A text is a TLA+ string; char(s, i) is its i-th    *)
(* character, a string of length one.                                      *)
(***************************************************************************)
Uppers == "ABCDEFGHIJKLMNOPQRSTUVWXYZ"

Lowers == "abcdefghijklmnopqrstuvwxyz"

char(s, i) == SubSeq(s, i, i)

\* s[from:] counted from 1
suffix_from(s, from) == SubSeq(s, from, Len(s))

IndexIn(c, alphabet) == CHOOSE i \in 1..Len(alphabet) : char(alphabet, i) = c

\* the lower-case letter of every upper-case letter, and the converse
LowerOf == [c \in {char(Uppers, i) : i \in 1..Len(Uppers)} |-> char(Lowers, IndexIn(c, Uppers))]

UpperOf == [c \in {char(Lowers, i) : i \in 1..Len(Lowers)} |-> char(Uppers, IndexIn(c, Lowers))]

LowerChar(c) == IF c \in DOMAIN LowerOf THEN LowerOf[c] ELSE c

UpperChar(c) == IF c \in DOMAIN UpperOf THEN UpperOf[c] ELSE c

RECURSIVE MapChars(_, _)
MapChars(f(_), s) == IF s = "" THEN "" ELSE f(char(s, 1)) \o MapChars(f, suffix_from(s, 2))

\* str.lower()
lower(s) == MapChars(LowerChar, s)

\* a capitalize that upper-cases the first character and keeps every other one
capitalize_first_only(s) == IF s = "" THEN "" ELSE UpperChar(char(s, 1)) \o suffix_from(s, 2)

\* str.capitalize(): the first character upper-cased, every other one lower-cased
capitalize(s) == IF s = "" THEN "" ELSE UpperChar(char(s, 1)) \o lower(suffix_from(s, 2))

\* str.replace(a, b) where a is one character
RECURSIVE replace(_, _, _)
replace(s, a, b) ==
    IF s = "" THEN ""
    ELSE (IF char(s, 1) = a THEN b ELSE char(s, 1)) \o replace(suffix_from(s, 2), a, b)

\* str.endswith(suffix)
endswith(s, suffix) ==
    /\ Len(suffix) <= Len(s)
    /\ SubSeq(s, Len(s) - Len(suffix) + 1, Len(s)) = suffix

\* str.startswith(prefix)
startswith(s, prefix) ==
    /\ Len(prefix) <= Len(s)
    /\ SubSeq(s, 1, Len(prefix)) = prefix

\* `c in s` where c is one character
contains(s, c) == \E i \in 1..Len(s) : char(s, i) = c

\* str.find(c) counted from 1: the first occurrence of c, 0 when there is none
find(s, c) ==
    IF contains(s, c)
    THEN CHOOSE i \in 1..Len(s) : char(s, i) = c /\ \A j \in 1..(i-1) : char(s, j) # c
    ELSE 0

\* split that leaves the empty pieces out, as str.split() without a separator does
RECURSIVE split_skipping_empty(_, _)
split_skipping_empty(s, sep) ==
    IF s = "" THEN <<>>
    ELSE IF ~contains(s, sep) THEN <<s>>
    ELSE (IF find(s, sep) = 1 THEN <<>> ELSE <<SubSeq(s, 1, find(s, sep) - 1)>>)
         \o split_skipping_empty(suffix_from(s, find(s, sep) + 1), sep)

\* str.split(sep): every piece between separators, the empty ones included
RECURSIVE split(_, _)
split(s, sep) ==
    IF ~contains(s, sep) THEN <<s>>
    ELSE <<SubSeq(s, 1, find(s, sep) - 1)>> \o split(suffix_from(s, find(s, sep) + 1), sep)

\* str.split(sep, 1): at most one split, at the first separator
split1(s, sep) ==
    IF ~contains(s, sep) THEN <<s>>
    ELSE <<SubSeq(s, 1, find(s, sep) - 1), suffix_from(s, find(s, sep) + 1)>>

\* str.lstrip(chars) and str.rstrip(chars)
RECURSIVE lstrip(_, _)
lstrip(s, chars) ==
    IF s # "" /\ contains(chars, char(s, 1)) THEN lstrip(suffix_from(s, 2), chars) ELSE s

RECURSIVE rstrip(_, _)
rstrip(s, chars) ==
    IF s # "" /\ contains(chars, char(s, Len(s)))
    THEN rstrip(SubSeq(s, 1, Len(s) - 1), chars)
    ELSE s

\* the white space of the modelled texts
Whitespace == " "

\* str.strip()
strip(s) == rstrip(lstrip(s, Whitespace), Whitespace)

\* sep.join(pieces)
RECURSIVE join(_, _)
join(sep, pieces) ==
    IF pieces = <<>> THEN ""
    ELSE IF Len(pieces) = 1 THEN pieces[1]
    ELSE pieces[1] \o sep \o join(sep, Tail(pieces))

\* a list comprehension [f(x) for x in xs]
Map(f(_), xs) == [i \in 1..Len(xs) |-> f(xs[i])]

\* a list comprehension [x for x in xs if keep(x)]
RECURSIVE Filter(_, _)
Filter(keep(_), xs) ==
    IF xs = <<>> THEN <<>>
    ELSE (IF keep(Head(xs)) THEN <<Head(xs)>> ELSE <<>>) \o Filter(keep, Tail(xs))

(***************************************************************************)
(* BaseGenerator: the identifier transforms.                               *)
(***************************************************************************)
\* name.replace('-', '_').split('_')
words_of(name) == split(replace(name, "-", "_"), "_")

to_pascal_case(name) == join("", Map(capitalize, words_of(name)))

\* The value of a call that raises IndexError; no modelled text holds "<".
IndexError == "<IndexError>"

\* words[0] raises IndexError on an empty list
to_camel_case(name) ==
    LET words == words_of(name)
    IN  IF Len(words) = 0 THEN IndexError
        ELSE lower(words[1]) \o join("", Map(capitalize, Tail(words)))

\* a to_snake_case that puts a '_' at every boundary from lower to upper case
RECURSIVE at_case_boundaries(_)
at_case_boundaries(s) ==
    IF Len(s) < 2 THEN s
    ELSE char(s, 1)
         \o (IF contains(Lowers, char(s, 1)) /\ contains(Uppers, char(s, 2)) THEN "_" ELSE "")
         \o at_case_boundaries(suffix_from(s, 2))

to_snake_case_at_boundaries(name) == replace(lower(at_case_boundaries(name)), "-", "_")

to_snake_case(name) == replace(lower(name), "-", "_")

to_kebab_case(name) == replace(lower(name), "_", "-")

\* a pluralize whose second rule misses the ending 'sh'
pluralize_without_sh(name) ==
    IF endswith(name, "y") THEN SubSeq(name, 1, Len(name) - 1) \o "ies"
    ELSE IF \/ endswith(name, "s") \/ endswith(name, "x") \/ endswith(name, "ch")
         THEN name \o "es"
         ELSE name \o "s"

pluralize(name) ==
    IF endswith(name, "y") THEN SubSeq(name, 1, Len(name) - 1) \o "ies"
    ELSE IF \/ endswith(name, "s") \/ endswith(name, "x")
            \/ endswith(name, "ch") \/ endswith(name, "sh")
         THEN name \o "es"
         ELSE name \o "s"

(***************************************************************************)
(* The generated files.  A file holds the texts written to it, in order;   *)
(* Path.write_text opens the file for writing, which truncates it, and     *)
(* writes one text.                                                        *)
(***************************************************************************)
NoFiles == [path \in {} |-> <<>>]

\* write_file that opens the file for appending
write_file_appending(path, content, files_on_disk) ==
    (path :> (IF path \in DOMAIN files_on_disk THEN files_on_disk[path] ELSE <<>>)
             \o <<content>>) @@ files_on_disk

\* write_file that makes the directories and leaves the text unwritten
write_file_unwritten(path, content, files_on_disk) == files_on_disk

\* path.parent.mkdir(parents=True, exist_ok=True); path.write_text(content)
write_file(path, content, files_on_disk) == (path :> <<content>>) @@ files_on_disk

\* The file left behind when the write fails after the file was opened.
truncate_file(path, files_on_disk) == (path :> <<>>) @@ files_on_disk

\* output_dir / part / ... relative to output_dir; pathlib drops an empty part
PathOf(parts) ==
    LET nonempty(part) == part # ""
    IN  join("/", Filter(nonempty, parts))

\* One step of generate: the path and the template of a write_file call.
Step(path, content) == [path |-> path, content |-> content]

\* The value of a statement that raises ValueError; no modelled text holds "<".
ValueError == "<ValueError>"

\* `a, b = parts` raises ValueError unless parts has exactly two items
unpack2(parts) == IF Len(parts) = 2 THEN parts ELSE <<ValueError, ValueError>>

\* What a template returns when a call inside it raises.
Raise(exception) == [raised |-> exception]

IsRaise(content) == "raised" \in DOMAIN content

(***************************************************************************)
(* GoGenerator                                                             *)
(***************************************************************************)
\* str.rsplit(sep, 1): at most one split, at the last separator
rsplit1(s, sep) ==
    LET last == CHOOSE i \in 1..Len(s) :
                    char(s, i) = sep /\ \A j \in (i+1)..Len(s) : char(s, j) # sep
    IN  IF ~contains(s, sep) THEN <<s>>
        ELSE <<SubSeq(s, 1, last - 1), suffix_from(s, last + 1)>>

\* parse of one token that splits at the last ':'
Go_parse_field_rsplit(field) ==
    LET required == ~endswith(field, "?")
        body == rstrip(field, "?")
        parts == IF contains(body, ":") THEN unpack2(rsplit1(body, ":")) ELSE <<body, "string">>
    IN  [name |-> strip(parts[1]), type |-> strip(parts[2]), required |-> required]

Go_parse_field(field) ==
    LET required == ~endswith(field, "?")
        body == rstrip(field, "?")
        parts == IF contains(body, ":") THEN unpack2(split1(body, ":")) ELSE <<body, "string">>
    IN  [name |-> strip(parts[1]), type |-> strip(parts[2]), required |-> required]

\* parse_fields without the `continue` on an empty token
Go_parse_fields_keep_empty(fields_str) ==
    Map(Go_parse_field, Map(strip, split(fields_str, ",")))

\* parse_fields that drops a token whose name an earlier token has
RECURSIVE DropRepeated(_, _)
DropRepeated(fields, seen) ==
    IF fields = <<>> THEN <<>>
    ELSE IF Head(fields).name \in seen THEN DropRepeated(Tail(fields), seen)
    ELSE <<Head(fields)>> \o DropRepeated(Tail(fields), seen \cup {Head(fields).name})

Go_parse_fields_unique(fields_str) ==
    LET nonempty(field) == field # ""
    IN  DropRepeated(Map(Go_parse_field, Filter(nonempty, Map(strip, split(fields_str, ",")))),
                     {})

Go_parse_fields(fields_str) ==
    LET nonempty(field) == field # ""
    IN  Map(Go_parse_field, Filter(nonempty, Map(strip, split(fields_str, ","))))

Go_type_map ==
    ("string" :> "varchar(255)") @@ ("*string" :> "varchar(255)") @@
    ("int" :> "int") @@ ("int32" :> "int") @@ ("int64" :> "bigint") @@
    ("*int" :> "int") @@ ("*int64" :> "bigint") @@
    ("float32" :> "float") @@ ("float64" :> "double") @@
    ("bool" :> "boolean") @@ ("*bool" :> "boolean") @@
    ("time.Time" :> "datetime")

\* The value of a lookup that raises KeyError; no table holds "<".
KeyError == "<KeyError>"

\* d[key], which raises KeyError on a missing key
dict_getitem(d, key, default) ==
    [value |-> IF key \in DOMAIN d THEN d[key] ELSE KeyError, dict |-> d]

\* d.setdefault(key, default), which stores the default under a missing key
dict_setdefault(d, key, default) ==
    [value |-> IF key \in DOMAIN d THEN d[key] ELSE default,
     dict |-> IF key \in DOMAIN d THEN d ELSE (key :> default) @@ d]

\* d.get(key, default): the value returned and the dict after the call
dict_get(d, key, default) ==
    [value |-> IF key \in DOMAIN d THEN d[key] ELSE default, dict |-> d]

\* type_map.get(go_type, 'varchar(255)') on the type_map the call builds
Go_gorm_type_lookup(go_type) == dict_get(Go_type_map, go_type, "varchar(255)")

Go_gorm_type(go_type) == Go_gorm_type_lookup(go_type).value

\* a nullable form that puts a pointer on every field that is not required
Go_nullable_type_always_pointer(t, r) == IF r THEN t ELSE "*" \o t

\* t if r or t.startswith("*") else "*"+t
Go_nullable_type(t, r) == IF r \/ startswith(t, "*") THEN t ELSE "*" \o t

Go_model_template(self) ==
    LET line(f) == [ident |-> to_pascal_case(f.name),
                    type |-> Go_nullable_type(f.type, f.required),
                    gorm |-> Go_gorm_type(f.type),
                    json |-> f.name]
    IN  [template |-> "GoGenerator._model_template",
         entity_name |-> self.entity_name,
         fields_str |-> Map(line, self.fields)]

Go_dto_template(self) ==
    LET create(f) == [ident |-> to_pascal_case(f.name), type |-> f.type, json |-> f.name,
                      binding |-> IF f.required THEN "required" ELSE "omitempty"]
        update(f) == [ident |-> to_pascal_case(f.name), type |-> "*" \o lstrip(f.type, "*"),
                      json |-> f.name]
        response(f) == [ident |-> to_pascal_case(f.name),
                        type |-> Go_nullable_type(f.type, f.required), json |-> f.name]
        mapping(f) == [ident |-> to_pascal_case(f.name), from |-> to_pascal_case(f.name)]
    IN  [template |-> "GoGenerator._dto_template",
         project |-> self.project,
         entity_name |-> self.entity_name,
         create_fields |-> Map(create, self.fields),
         update_fields |-> Map(update, self.fields),
         response_fields |-> Map(response, self.fields),
         mappings |-> Map(mapping, self.fields)]

\* type {Entity}Response struct: ID, the response fields, CreatedAt
Go_response_struct(dto) ==
    <<[ident |-> "ID", type |-> "string", json |-> "id"]>>
    \o dto.response_fields
    \o <<[ident |-> "CreatedAt", type |-> "string", json |-> "created_at"]>>

\* a search field chosen without the test on the '_id' suffix
Go_search_field_any_string(fields) ==
    LET qualifies(f) == f.type = "string"
        found == Filter(qualifies, fields)
    IN  IF found # <<>> THEN found[1].name ELSE "name"

\* next((n for n, t, _ in fields if t == 'string' and not n.endswith('_id')), 'name')
Go_search_field(fields) ==
    LET qualifies(f) == f.type = "string" /\ ~endswith(f.name, "_id")
        found == Filter(qualifies, fields)
    IN  IF found # <<>> THEN found[1].name ELSE "name"

\* a usecase whose update set is keyed by the Go member names
Go_usecase_template_member_keys(self) ==
    LET create(f) == [ident |-> to_pascal_case(f.name), from |-> to_pascal_case(f.name)]
        update(f) == [guard |-> to_pascal_case(f.name), key |-> to_pascal_case(f.name),
                      from |-> to_pascal_case(f.name)]
    IN  [template |-> "GoGenerator._usecase_template",
         project |-> self.project,
         module_name |-> self.module_name,
         entity_name |-> self.entity_name,
         search_field |-> Go_search_field(self.fields),
         create_map |-> Map(create, self.fields),
         update_map |-> Map(update, self.fields)]

Go_usecase_template(self) ==
    LET create(f) == [ident |-> to_pascal_case(f.name), from |-> to_pascal_case(f.name)]
        update(f) == [guard |-> to_pascal_case(f.name), key |-> f.name,
                      from |-> to_pascal_case(f.name)]
    IN  [template |-> "GoGenerator._usecase_template",
         project |-> self.project,
         module_name |-> self.module_name,
         entity_name |-> self.entity_name,
         search_field |-> Go_search_field(self.fields),
         create_map |-> Map(create, self.fields),
         update_map |-> Map(update, self.fields)]

Go_controller_template(self) ==
    [template |-> "GoGenerator._controller_template",
     project |-> self.project,
     module_name |-> self.module_name,
     entity_name |-> self.entity_name]

\* group := r.Group("/{route}"), with the item routes "/:id" inside the group
Go_init_template(self) ==
    LET route == to_kebab_case(pluralize(self.module_name))
    IN  [template |-> "GoGenerator._init_template",
         project |-> self.project,
         module_name |-> self.module_name,
         entity_name |-> self.entity_name,
         collection_path |-> "/" \o route,
         item_path |-> "/" \o route \o "/:id"]

Go_validator_template(self) ==
    [template |-> "GoGenerator._validator_template",
     project |-> self.project,
     module_name |-> self.module_name,
     entity_name |-> self.entity_name]

\* a generate that writes the validator first when the option is set
Go_generate_validator_first(self) ==
    LET module_dir == PathOf(<<"internal", "modules", self.module_name>>)
    IN  (IF self.options.validators
         THEN <<Step(PathOf(<<module_dir, "validators",
                              self.module_name \o "_validator.go">>),
                     Go_validator_template(self))>>
         ELSE <<>>)
        \o <<Step(PathOf(<<"pkg", "database", self.module_name \o ".go">>),
                  Go_model_template(self)),
             Step(PathOf(<<module_dir, "dtos", self.module_name \o "_dto.go">>),
                  Go_dto_template(self)),
             Step(PathOf(<<module_dir, "usecases", self.module_name \o "_usecase.go">>),
                  Go_usecase_template(self)),
             Step(PathOf(<<module_dir, "controllers", self.module_name \o "_controller.go">>),
                  Go_controller_template(self)),
             Step(PathOf(<<module_dir, "init.go">>), Go_init_template(self))>>

\* The write_file calls of GoGenerator.generate, in order.
Go_generate(self) ==
    LET module_dir == PathOf(<<"internal", "modules", self.module_name>>)
    IN  <<Step(PathOf(<<"pkg", "database", self.module_name \o ".go">>),
               Go_model_template(self)),
          Step(PathOf(<<module_dir, "dtos", self.module_name \o "_dto.go">>),
               Go_dto_template(self)),
          Step(PathOf(<<module_dir, "usecases", self.module_name \o "_usecase.go">>),
               Go_usecase_template(self)),
          Step(PathOf(<<module_dir, "controllers", self.module_name \o "_controller.go">>),
               Go_controller_template(self)),
          Step(PathOf(<<module_dir, "init.go">>), Go_init_template(self))>>
        \o (IF self.options.validators
            THEN <<Step(PathOf(<<module_dir, "validators",
                                 self.module_name \o "_validator.go">>),
                        Go_validator_template(self))>>
            ELSE <<>>)

(***************************************************************************)
(* LaravelGenerator                                                        *)
(***************************************************************************)
Laravel_parse_field(field) ==
    LET required == ~endswith(field, "?")
        body == rstrip(field, "?")
        parts == IF contains(body, ":") THEN unpack2(split1(body, ":")) ELSE <<body, "string">>
    IN  [name |-> strip(parts[1]), type |-> strip(parts[2]), required |-> required]

Laravel_parse_fields(fields_str) ==
    LET nonempty(field) == field # ""
    IN  Map(Laravel_parse_field, Filter(nonempty, Map(strip, split(fields_str, ","))))

Laravel_type_map ==
    ("string" :> "string") @@ ("text" :> "text") @@ ("integer" :> "integer") @@
    ("bigInteger" :> "bigInteger") @@ ("float" :> "float") @@ ("double" :> "double") @@
    ("decimal" :> "decimal") @@ ("boolean" :> "boolean") @@ ("date" :> "date") @@
    ("datetime" :> "dateTime") @@ ("timestamp" :> "timestamp") @@ ("json" :> "json")

\* type_map.get(php_type, 'string') on the type_map the call builds
Laravel_migration_type_lookup(php_type) == dict_get(Laravel_type_map, php_type, "string")

Laravel_migration_type(php_type) == Laravel_migration_type_lookup(php_type).value

Laravel_model_template(self) ==
    LET fill(f) == [name |-> f.name]
        cast(f) == [name |-> f.name, type |-> f.type]
        is_cast(f) == f.type \in {"boolean", "integer", "float", "array", "json"}
    IN  [template |-> "LaravelGenerator._model_template",
         entity_name |-> self.entity_name,
         fillable |-> Map(fill, self.fields),
         casts |-> Map(cast, Filter(is_cast, self.fields))]

Laravel_migration_template(self) ==
    LET column(f) == [type |-> Laravel_migration_type(f.type), name |-> f.name,
                      nullable |-> ~f.required]
    IN  [template |-> "LaravelGenerator._migration_template",
         table |-> pluralize(self.module_name),
         columns |-> Map(column, self.fields)]

\* index filters on the literal column 'name'
Laravel_controller_template(self) ==
    LET variable == to_camel_case(self.module_name)
    IN  IF variable = IndexError THEN Raise("IndexError")
        ELSE [template |-> "LaravelGenerator._controller_template",
              entity_name |-> self.entity_name,
              search_field |-> "name",
              variable |-> variable]

Laravel_request_template(self) ==
    LET rule(f) == [name |-> f.name,
                    presence |-> IF f.required THEN "required" ELSE "nullable",
                    type |-> f.type]
    IN  [template |-> "LaravelGenerator._request_template",
         entity_name |-> self.entity_name,
         rules |-> Map(rule, self.fields)]

Laravel_resource_template(self) ==
    LET field(f) == [name |-> f.name, from |-> f.name]
    IN  [template |-> "LaravelGenerator._resource_template",
         entity_name |-> self.entity_name,
         fields |-> Map(field, self.fields)]

Laravel_create_usecase_template(self) ==
    [template |-> "LaravelGenerator._create_usecase_template", entity_name |-> self.entity_name]

Laravel_update_usecase_template(self) ==
    [template |-> "LaravelGenerator._update_usecase_template", entity_name |-> self.entity_name]

Laravel_delete_usecase_template(self) ==
    [template |-> "LaravelGenerator._delete_usecase_template", entity_name |-> self.entity_name]

\* The write_file calls of LaravelGenerator.generate, in order.
Laravel_generate(self) ==
    LET usecase_dir == PathOf(<<"app", "UseCases", self.entity_name>>)
    IN  <<Step(PathOf(<<"app", "Models", self.entity_name \o ".php">>),
               Laravel_model_template(self)),
          Step(PathOf(<<"database", "migrations",
                        "create_" \o pluralize(self.module_name) \o "_table.php">>),
               Laravel_migration_template(self)),
          Step(PathOf(<<"app", "Http", "Controllers", self.entity_name \o "Controller.php">>),
               Laravel_controller_template(self)),
          Step(PathOf(<<"app", "Http", "Requests", self.entity_name \o "Request.php">>),
               Laravel_request_template(self)),
          Step(PathOf(<<"app", "Http", "Resources", self.entity_name \o "Resource.php">>),
               Laravel_resource_template(self)),
          Step(PathOf(<<usecase_dir, "Create" \o self.entity_name \o "UseCase.php">>),
               Laravel_create_usecase_template(self)),
          Step(PathOf(<<usecase_dir, "Update" \o self.entity_name \o "UseCase.php">>),
               Laravel_update_usecase_template(self)),
          Step(PathOf(<<usecase_dir, "Delete" \o self.entity_name \o "UseCase.php">>),
               Laravel_delete_usecase_template(self))>>

(***************************************************************************)
(* ReactGenerator                                                          *)
(***************************************************************************)
React_parse_field(field) ==
    LET required == ~endswith(field, "?")
        body == rstrip(field, "?")
        parts == IF contains(body, ":") THEN unpack2(split1(body, ":")) ELSE <<body, "string">>
    IN  [name |-> strip(parts[1]), type |-> strip(parts[2]), required |-> required]

React_parse_fields(fields_str) ==
    LET nonempty(field) == field # ""
    IN  Map(React_parse_field, Filter(nonempty, Map(strip, split(fields_str, ","))))

React_types_template(self) ==
    LET field(f) == [name |-> f.name, optional |-> ~f.required, type |-> f.type]
        update(f) == [name |-> f.name, optional |-> TRUE, type |-> f.type]
    IN  [template |-> "ReactGenerator._types_template",
         entity_name |-> self.entity_name,
         fields |-> Map(field, self.fields),
         create_fields |-> Map(field, self.fields),
         update_fields |-> Map(update, self.fields)]

\* the API client with the snake-case plural as its base URL
React_api_template_snake(self) ==
    LET route == to_snake_case(pluralize(self.module_name))
        api == to_camel_case(self.module_name)
    IN  IF api = IndexError THEN Raise("IndexError")
        ELSE [template |-> "ReactGenerator._api_template",
              entity_name |-> self.entity_name,
              api |-> api,
              collection_path |-> "/" \o route,
              item_path |-> "/" \o route \o "/${id}"]

\* const BASE_URL = '/{route}'; the item requests use `${BASE_URL}/${id}`
React_api_template(self) ==
    LET route == to_kebab_case(pluralize(self.module_name))
        api == to_camel_case(self.module_name)
    IN  IF api = IndexError THEN Raise("IndexError")
        ELSE [template |-> "ReactGenerator._api_template",
              entity_name |-> self.entity_name,
              api |-> api,
              collection_path |-> "/" \o route,
              item_path |-> "/" \o route \o "/${id}"]

React_hooks_template(self) ==
    LET api == to_camel_case(self.module_name)
    IN  IF api = IndexError THEN Raise("IndexError")
        ELSE [template |-> "ReactGenerator._hooks_template",
              entity_name |-> self.entity_name,
              api |-> api,
              query_key |-> pluralize(self.module_name)]

React_list_component_template(self) ==
    [template |-> "ReactGenerator._list_component_template", entity_name |-> self.entity_name]

\* the form with its inputs in reverse order
React_form_component_template_reversed(self) ==
    LET input(f) == [name |-> f.name, placeholder |-> to_pascal_case(f.name),
                     required |-> f.required]
        n == Len(self.fields)
    IN  [template |-> "ReactGenerator._form_component_template",
         entity_name |-> self.entity_name,
         fields |-> [i \in 1..n |-> input(self.fields[n + 1 - i])]]

React_form_component_template(self) ==
    LET input(f) == [name |-> f.name, placeholder |-> to_pascal_case(f.name),
                     required |-> f.required]
    IN  [template |-> "ReactGenerator._form_component_template",
         entity_name |-> self.entity_name,
         fields |-> Map(input, self.fields)]

React_index_template(self) ==
    [template |-> "ReactGenerator._index_template", entity_name |-> self.entity_name]

\* The write_file calls of ReactGenerator.generate, in order.
React_generate(self) ==
    LET feature_dir == PathOf(<<"src", "features", self.module_name>>)
    IN  <<Step(PathOf(<<feature_dir, "types.ts">>), React_types_template(self)),
          Step(PathOf(<<feature_dir, "api.ts">>), React_api_template(self)),
          Step(PathOf(<<feature_dir, "hooks.ts">>), React_hooks_template(self)),
          Step(PathOf(<<feature_dir, "components", self.entity_name \o "List.tsx">>),
               React_list_component_template(self)),
          Step(PathOf(<<feature_dir, "components", self.entity_name \o "Form.tsx">>),
               React_form_component_template(self)),
          Step(PathOf(<<feature_dir, "index.ts">>), React_index_template(self))>>

(***************************************************************************)
(* FlutterGenerator                                                        *)
(***************************************************************************)
Flutter_parse_field(field) ==
    LET required == ~endswith(field, "?")
        body == rstrip(field, "?")
        parts == IF contains(body, ":") THEN unpack2(split1(body, ":")) ELSE <<body, "String">>
    IN  [name |-> strip(parts[1]), type |-> strip(parts[2]), required |-> required]

Flutter_parse_fields(fields_str) ==
    LET nonempty(field) == field # ""
    IN  Map(Flutter_parse_field, Filter(nonempty, Map(strip, split(fields_str, ","))))

\* fields, from_json and to_json are built, which calls to_camel_case on every
\* field name, and are not interpolated into the text
Flutter_model_template(self) ==
    LET param(f) == [required |-> f.required, ident |-> to_camel_case(f.name)]
    IN  IF \E i \in 1..Len(self.fields) : to_camel_case(self.fields[i].name) = IndexError
        THEN Raise("IndexError")
        ELSE [template |-> "FlutterGenerator._model_template",
              module_name |-> self.module_name,
              entity_name |-> self.entity_name,
              constructor_params |-> Map(param, self.fields)]

\* the item requests use '/{route}/$id'
Flutter_repository_template(self) ==
    LET route == to_kebab_case(pluralize(self.module_name))
    IN  [template |-> "FlutterGenerator._repository_template",
         module_name |-> self.module_name,
         entity_name |-> self.entity_name,
         collection_path |-> "/" \o route,
         item_path |-> "/" \o route \o "/$id"]

Flutter_provider_template(self) ==
    LET provider == to_camel_case(self.module_name)
    IN  IF provider = IndexError THEN Raise("IndexError")
        ELSE [template |-> "FlutterGenerator._provider_template",
              module_name |-> self.module_name,
              entity_name |-> self.entity_name,
              provider |-> provider]

Flutter_screen_template(self) ==
    LET provider == to_camel_case(self.module_name)
    IN  IF provider = IndexError THEN Raise("IndexError")
        ELSE [template |-> "FlutterGenerator._screen_template",
              module_name |-> self.module_name,
              entity_name |-> self.entity_name,
              provider |-> provider]

\* The write_file calls of FlutterGenerator.generate, in order.
Flutter_generate(self) ==
    LET feature_dir == PathOf(<<"lib", "features", self.module_name>>)
    IN  <<Step(PathOf(<<feature_dir, "data", "models", self.module_name \o "_model.dart">>),
               Flutter_model_template(self)),
          Step(PathOf(<<feature_dir, "data", "repositories",
                        self.module_name \o "_repository.dart">>),
               Flutter_repository_template(self)),
          Step(PathOf(<<feature_dir, "presentation", "providers",
                        self.module_name \o "_provider.dart">>),
               Flutter_provider_template(self)),
          Step(PathOf(<<feature_dir, "presentation", "screens",
                        self.module_name \o "_list_screen.dart">>),
               Flutter_screen_template(self))>>

(***************************************************************************)
(* main: the registry and the command line.                                *)
(***************************************************************************)
\* the keys of GENERATORS
GENERATORS == {"go", "laravel", "react", "flutter"}

\* the stacks the module docstring lists as supported
SupportedStacks == {"go", "laravel", "react", "flutter", "remix"}

\* generator_class.parse_fields
parse_fields(stack, fields_str) ==
    CASE stack = "go" -> Go_parse_fields(fields_str)
      [] stack = "laravel" -> Laravel_parse_fields(fields_str)
      [] stack = "react" -> React_parse_fields(fields_str)
      [] stack = "flutter" -> Flutter_parse_fields(fields_str)

\* generator_class.generate
generate(stack, self) ==
    CASE stack = "go" -> Go_generate(self)
      [] stack = "laravel" -> Laravel_generate(self)
      [] stack = "react" -> React_generate(self)
      [] stack = "flutter" -> Flutter_generate(self)

\* an __init__ that keeps the name as given for the module name
new_generator_keeps_case(stack, name, fields, project, validators) ==
    [class |-> stack,
     module_name |-> name,
     entity_name |-> to_pascal_case(name),
     project |-> project,
     options |-> [validators |-> validators],
     fields |-> parse_fields(stack, fields)]

\* BaseGenerator.__init__
new_generator(stack, name, fields, project, validators) ==
    [class |-> stack,
     module_name |-> lower(name),
     entity_name |-> to_pascal_case(name),
     project |-> project,
     options |-> [validators |-> validators],
     fields |-> parse_fields(stack, fields)]

\* parse_fields raised on the unpacking of a split
parse_raised(fields) == \E i \in 1..Len(fields) : fields[i].name = ValueError

NoGenerator == [class |-> "None"]

NoStep == Step("", [template |-> "None"])

(***************************************************************************)
(* The inputs.  A field specification is written from tokens: each token   *)
(* is  lead name [gap ":" gap type] marks trail  where lead, gap and trail *)
(* are white space and marks is a run of "?".                              *)
(***************************************************************************)
Token(lead, name, colon, gap, type, marks, trail) ==
    [lead |-> lead, name |-> name, colon |-> colon, gap |-> gap, type |-> type,
     marks |-> marks, trail |-> trail]

\* name[:type][?] without white space
Field(name, colon, type, marks) == Token("", name, colon, "", type, marks, "")

TokenText(t) ==
    t.lead \o t.name \o (IF t.colon THEN t.gap \o ":" \o t.gap \o t.type ELSE "")
    \o t.marks \o t.trail

FieldSpec(tokens) == join(",", Map(TokenText, tokens))

\* The field lists of the generation runs.
ScenarioTokens ==
    { <<Field("sku", TRUE, "string", ""), Field("qty", TRUE, "int64", "?")>>,
      <<Field("a", FALSE, "", ""), Field("", FALSE, "", ""), Field("b", TRUE, "int", "")>>,
      <<>>,
      <<Field("", TRUE, "", "")>>,
      <<Field("", FALSE, "", "?")>>,
      <<Field("user_id", TRUE, "string", ""), Token(" ", "title", FALSE, "", "", "", "")>>,
      <<Field("a", FALSE, "", ""), Field("a", TRUE, "int", "?")>>,
      <<Field("total", TRUE, "money", ""), Field("note", TRUE, "*string", "?")>> }

Stacks == SupportedStacks \cup {"vue"}

Names == {"order_item", "category", "Box", ""}

Projects == {"", "github.com/user/app"}

VARIABLES
    tokens,      \* the tokens the --fields argument was written from
    args,        \* the command line: stack, name, fields, project, validators
    invocation,  \* 1 for the first run of the command line, 2 for its repetition
    pc,          \* the position of main
    self,        \* the generator object, NoGenerator before its construction
    k,           \* the index of the next write_file call of generate
    pending,     \* the path and the rendered content of the write_file call under way
    files,       \* generate's list of the paths written
    fs,          \* the files under the output directory
    error,       \* the exception that ended the run, "none" while there is none
    produced,    \* the (path, content) sequence of every completed run
    call,        \* the last call made on its own: a function of the generator with its
                 \* arguments, or a request to the generated Go module
    result,      \* what that call returned
    row          \* the database row of the entity the generated Go module serves

vars == <<tokens, args, invocation, pc, self, k, pending, files, fs, error, produced,
          call, result, row>>

\* no call was made, nothing was returned, no row is stored
NoCall == [fn |-> "None"]

NoResult == [value |-> "None"]

NoRow == [column \in {} |-> ""]

\* A generation run makes no call on its own and serves no request.
NothingServed == call = NoCall /\ result = NoResult /\ row = NoRow

\* The (path, content) pairs of the files a run returned, read back from the disk.
Artifacts(paths, files_on_disk) ==
    [i \in 1..Len(paths) |-> [path |-> paths[i], content |-> files_on_disk[paths[i]]]]

StartOfRun ==
    /\ pc = "start"
    /\ self = NoGenerator
    /\ k = 1
    /\ pending = NoStep
    /\ files = <<>>
    /\ error = "none"

Init ==
    /\ tokens \in ScenarioTokens
    /\ args \in [stack : Stacks, name : Names, fields : {FieldSpec(tokens)},
                 project : Projects, validators : BOOLEAN]
    /\ invocation = 1
    /\ StartOfRun
    /\ fs = NoFiles
    /\ produced = <<>>
    /\ NothingServed

\* parse_args without choices: every stack is accepted
SelectStack_unchecked ==
    /\ pc = "start"
    /\ pc' = "selected"
    /\ UNCHANGED <<tokens, args, invocation, self, k, pending, files, fs, error, produced>>
    /\ UNCHANGED <<call, result, row>>

\* parser.parse_args() accepts a stack that is among choices=GENERATORS.keys()
SelectStack ==
    /\ pc = "start"
    /\ args.stack \in GENERATORS
    /\ pc' = "selected"
    /\ UNCHANGED <<tokens, args, invocation, self, k, pending, files, fs, error, produced>>
    /\ UNCHANGED <<call, result, row>>

\* parser.parse_args() rejects a stack that is not among choices=GENERATORS.keys()
RejectStack ==
    /\ pc = "start"
    /\ args.stack \notin GENERATORS
    /\ pc' = "exit"
    /\ error' = "UnsupportedStack"
    /\ UNCHANGED <<tokens, args, invocation, self, k, pending, files, fs, produced>>
    /\ UNCHANGED <<call, result, row>>

\* generator_class = GENERATORS[args.stack], which raises KeyError on a missing key;
\* generator = generator_class(name=..., fields=..., project=..., validators=...)
Construct ==
    /\ pc = "selected"
    /\ IF args.stack \notin GENERATORS
       THEN /\ pc' = "raised"
            /\ error' = "KeyError"
            /\ self' = self
       ELSE LET generator == new_generator(args.stack, args.name, args.fields, args.project,
                                           args.validators)
            IN  IF parse_raised(generator.fields)
                THEN /\ pc' = "raised"
                     /\ error' = "ValueError"
                     /\ self' = self
                ELSE /\ pc' = "generate"
                     /\ error' = error
                     /\ self' = generator
    /\ UNCHANGED <<tokens, args, invocation, k, pending, files, fs, produced>>
    /\ UNCHANGED <<call, result, row>>

\* generate evaluates the arguments of its k-th write_file call
Render ==
    /\ pc = "generate"
    /\ k <= Len(generate(self.class, self))
    /\ LET step == generate(self.class, self)[k]
       IN  IF IsRaise(step.content)
           THEN /\ pc' = "raised"
                /\ error' = step.content.raised
                /\ pending' = pending
           ELSE /\ pc' = "rendered"
                /\ error' = error
                /\ pending' = step
    /\ UNCHANGED <<tokens, args, invocation, self, k, files, fs, produced>>
    /\ UNCHANGED <<call, result, row>>

\* files.append(self.write_file(path, content))
WriteFile ==
    /\ pc = "rendered"
    /\ fs' = write_file(pending.path, pending.content, fs)
    /\ files' = Append(files, pending.path)
    /\ k' = k + 1
    /\ pending' = NoStep
    /\ pc' = "generate"
    /\ UNCHANGED <<tokens, args, invocation, self, error, produced>>
    /\ UNCHANGED <<call, result, row>>

\* mkdir or write_text raises OSError, before the file is opened or after
WriteFails ==
    /\ pc = "rendered"
    /\ fs' \in {fs, truncate_file(pending.path, fs)}
    /\ pc' = "failed"
    /\ error' = "OSError"
    /\ UNCHANGED <<tokens, args, invocation, self, k, pending, files, produced>>
    /\ UNCHANGED <<call, result, row>>

\* generate returns files and main prints them
Finish ==
    /\ pc = "generate"
    /\ k > Len(generate(self.class, self))
    /\ pc' = "done"
    /\ produced' = Append(produced, Artifacts(files, fs))
    /\ UNCHANGED <<tokens, args, invocation, self, k, pending, files, fs, error>>
    /\ UNCHANGED <<call, result, row>>

\* the same command line is run a second time, on the same output directory
Rerun ==
    /\ pc = "done"
    /\ invocation = 1
    /\ invocation' = 2
    /\ pc' = "start"
    /\ self' = NoGenerator
    /\ k' = 1
    /\ pending' = NoStep
    /\ files' = <<>>
    /\ error' = "none"
    /\ UNCHANGED <<tokens, args, fs, produced>>
    /\ UNCHANGED <<call, result, row>>

Next ==
    \/ SelectStack
    \/ RejectStack
    \/ Construct
    \/ Render
    \/ WriteFile
    \/ WriteFails
    \/ Finish
    \/ Rerun

Spec == Init /\ [][Next]_vars

(***************************************************************************)
(* The field specification parsers on their own: every list of at most     *)
(* MaxTokens tokens, for every registered stack.                           *)
(***************************************************************************)
MaxTokens == 2

TokenShapes ==
    { Field(name, colon, type, marks) :
        name \in {"", "a", "id"}, colon \in {TRUE}, type \in {"int", "x:y"}, marks \in {"", "?"} }
    \cup { Field(name, FALSE, "", marks) : name \in {"", "a", "id"}, marks \in {"", "?"} }
    \cup { Field("a", TRUE, "", ""),
           Field("a", FALSE, "", "??"),
           Token(" ", "", FALSE, "", "", "", " "),
           Token(" ", "a", TRUE, " ", "int", "?", " ") }

TokenLists == UNION { [1..n -> TokenShapes] : n \in 0..MaxTokens }

ParseInit ==
    /\ tokens \in TokenLists
    /\ args \in [stack : GENERATORS, name : {"product"}, fields : {FieldSpec(tokens)},
                 project : {""}, validators : {FALSE}]
    /\ invocation = 1
    /\ StartOfRun
    /\ fs = NoFiles
    /\ produced = <<>>
    /\ NothingServed

ParseNext ==
    \/ SelectStack
    \/ Construct

ParseSpec == ParseInit /\ [][ParseNext]_vars

(***************************************************************************)
(* The functions of the generator called on their own.  A name is written  *)
(* from parts, words and the delimiters "-" and "_"; a name to pluralize   *)
(* from a stem and an ending; each behaviour makes one call.               *)
(***************************************************************************)
MaxParts == 3

Words == {"user", "profile", "Profile", "ID"}

Delimiters == {"-", "_"}

NameParts == UNION { [1..n -> Words \cup Delimiters] : n \in 0..MaxParts }

NameText(parts) == join("", parts)

Stems == {"", "bo", "bu", "categor", "produ"}

Endings == {"", "y", "s", "x", "ch", "sh", "t", "ct", "h", "ys", "sy"}

\* the type tokens looked up: every key of both tables and spellings of neither
TypeTokens ==
    DOMAIN Go_type_map \cup DOMAIN Laravel_type_map
    \cup {"money", "", "String", "*float64", "Int"}

MaxFields == 2

FieldShapes ==
    { [name |-> "user_id", type |-> "string", required |-> TRUE],
      [name |-> "title", type |-> "string", required |-> TRUE],
      [name |-> "name", type |-> "int", required |-> TRUE],
      [name |-> "body", type |-> "*string", required |-> FALSE],
      [name |-> "id", type |-> "string", required |-> TRUE],
      [name |-> "qty", type |-> "int64", required |-> FALSE],
      [name |-> "ref", type |-> "*int", required |-> TRUE] }

FieldLists == UNION { [1..n -> FieldShapes] : n \in 0..MaxFields }

\* a GoGenerator whose parse_fields returned the given descriptors
GeneratorOf(fields) ==
    [new_generator("go", "product", "", "github.com/user/app", FALSE) EXCEPT !.fields = fields]

run == <<tokens, args, invocation, pc, self, k, pending, files, fs, error, produced>>

CallInit ==
    /\ tokens = <<>>
    /\ args = [stack |-> "go", name |-> "product", fields |-> "", project |-> "",
               validators |-> FALSE]
    /\ invocation = 1
    /\ StartOfRun
    /\ fs = NoFiles
    /\ produced = <<>>
    /\ NothingServed

Call_to_pascal_case ==
    /\ call = NoCall
    /\ \E parts \in NameParts :
        /\ call' = [fn |-> "to_pascal_case", parts |-> parts, name |-> NameText(parts)]
        /\ result' = [value |-> to_pascal_case(NameText(parts))]
    /\ UNCHANGED <<run, row>>

Call_to_camel_case ==
    /\ call = NoCall
    /\ \E parts \in NameParts :
        /\ call' = [fn |-> "to_camel_case", parts |-> parts, name |-> NameText(parts)]
        /\ result' = [value |-> to_camel_case(NameText(parts))]
    /\ UNCHANGED <<run, row>>

Call_to_snake_case ==
    /\ call = NoCall
    /\ \E parts \in NameParts :
        /\ call' = [fn |-> "to_snake_case", parts |-> parts, name |-> NameText(parts)]
        /\ result' = [value |-> to_snake_case(NameText(parts))]
    /\ UNCHANGED <<run, row>>

Call_to_kebab_case ==
    /\ call = NoCall
    /\ \E parts \in NameParts :
        /\ call' = [fn |-> "to_kebab_case", parts |-> parts, name |-> NameText(parts)]
        /\ result' = [value |-> to_kebab_case(NameText(parts))]
    /\ UNCHANGED <<run, row>>

Call_pluralize ==
    /\ call = NoCall
    /\ \E stem \in Stems, ending \in Endings :
        /\ call' = [fn |-> "pluralize", stem |-> stem, ending |-> ending,
                    name |-> stem \o ending]
        /\ result' = [value |-> pluralize(stem \o ending)]
    /\ UNCHANGED <<run, row>>

Call_gorm_type ==
    /\ call = NoCall
    /\ \E go_type \in TypeTokens :
        /\ call' = [fn |-> "_gorm_type", token |-> go_type]
        /\ result' = [value |-> Go_gorm_type_lookup(go_type).value,
                      type_map |-> Go_gorm_type_lookup(go_type).dict]
    /\ UNCHANGED <<run, row>>

Call_migration_type ==
    /\ call = NoCall
    /\ \E php_type \in TypeTokens :
        /\ call' = [fn |-> "_migration_type", token |-> php_type]
        /\ result' = [value |-> Laravel_migration_type_lookup(php_type).value,
                      type_map |-> Laravel_migration_type_lookup(php_type).dict]
    /\ UNCHANGED <<run, row>>

Call_usecase_template ==
    /\ call = NoCall
    /\ \E fields \in FieldLists :
        /\ call' = [fn |-> "_usecase_template", fields |-> fields]
        /\ result' = [value |-> Go_usecase_template(GeneratorOf(fields))]
    /\ UNCHANGED <<run, row>>

Call_dto_template ==
    /\ call = NoCall
    /\ \E fields \in FieldLists :
        /\ call' = [fn |-> "_dto_template", fields |-> fields]
        /\ result' = [value |-> Go_dto_template(GeneratorOf(fields))]
    /\ UNCHANGED <<run, row>>

CallNext ==
    \/ Call_to_pascal_case
    \/ Call_to_camel_case
    \/ Call_to_snake_case
    \/ Call_to_kebab_case
    \/ Call_pluralize
    \/ Call_gorm_type
    \/ Call_migration_type
    \/ Call_usecase_template
    \/ Call_dto_template

CallSpec == CallInit /\ [][CallNext]_vars

(***************************************************************************)
(* The generated Go module at run time.  The handlers are read from the    *)
(* artifacts a generation run wrote; the database and the requests are the *)
(* environment; each behaviour serves one request.  Go's int is taken as   *)
(* wide as int64, as on every 64-bit build.                                *)
(***************************************************************************)
\* a nil pointer, a nil error
nil == "<nil>"

abs(n) == IF n < 0 THEN -n ELSE n

\* Go's a / b on integers, which truncates toward zero (b # 0)
go_quo(a, b) ==
    IF (a < 0) = (b < 0) THEN abs(a) \div abs(b) ELSE -(abs(a) \div abs(b))

\* Go's a % b on integers, which has the sign of a (b # 0)
go_rem(a, b) == a - b * go_quo(a, b)

\* int(total): int64 to int keeps every value of the 64-bit range
int(n) == n

\* The tokens of the entities whose generated module is built and served.
DeployedTokens ==
    { <<Field("sku", TRUE, "string", ""), Field("qty", TRUE, "int64", "?")>>,
      <<Field("user_id", TRUE, "string", ""), Token(" ", "title", FALSE, "", "", "", "")>>,
      <<Field("note", TRUE, "*string", "?")>>,
      <<>> }

\* The artifact of a kind that the run wrote.
Deployed(kind) ==
    LET i == CHOOSE i \in 1..Len(files) : fs[files[i]][1].template = kind
    IN  fs[files[i]][1]

\* the row of the entity: its id and one column per field of the model struct
RowOf(model, value) ==
    ("id" :> "1")
    @@ [column \in { model.fields_str[i].json : i \in 1..Len(model.fields_str) } |-> value]

\* ShouldBindQuery on List{Entity}Request: binding "omitempty,min=1" on Page and
\* "omitempty,min=1,max=100" on PerPage; a parameter left out is the zero value
bind_ListRequest(query) ==
    IF /\ (query.page = 0 \/ query.page >= 1)
       /\ (query.per_page = 0 \/ (query.per_page >= 1 /\ query.per_page <= 100))
    THEN [Page |-> query.page, PerPage |-> query.per_page, Search |-> query.search]
    ELSE [err |-> "binding"]

\* {Entity}Usecase.List; db gives the count of the rows and the statement that fails
usecase_List(usecase, req, db) ==
    LET where == IF req.Search # "" THEN <<usecase.search_field, req.Search>> ELSE <<>>
        page == IF req.Page < 1 THEN 1 ELSE req.Page
        perPage == IF req.PerPage < 1 THEN 20 ELSE req.PerPage
        offset == (page - 1) * perPage
        counted == [op |-> "Count", where |-> where]
        found == [op |-> "Find", where |-> where, offset |-> offset, limit |-> perPage]
    IN  IF db.fails = "Count" THEN [err |-> "Count", statements |-> <<counted>>]
        ELSE IF db.fails = "Find" THEN [err |-> "Find", statements |-> <<counted, found>>]
        ELSE [err |-> nil, total |-> db.total, statements |-> <<counted, found>>]

\* To{Entity}ListResponse; the division panics on a zero perPage
ToListResponse(page, perPage, total) ==
    IF perPage = 0 THEN [panic |-> "integer divide by zero"]
    ELSE LET totalPages == go_quo(int(total), perPage)
         IN  [Page |-> page, PerPage |-> perPage, Total |-> total,
              TotalPages |-> IF go_rem(int(total), perPage) > 0
                             THEN totalPages + 1 ELSE totalPages]

\* a controller List that falls back to a page size of 10
controller_List_default_10(usecase, query, db) ==
    LET req == bind_ListRequest(query)
    IN  IF "err" \in DOMAIN req THEN [status |-> 400, statements |-> <<>>]
        ELSE LET listed == usecase_List(usecase, req, db)
                 page == IF req.Page < 1 THEN 1 ELSE req.Page
                 perPage == IF req.PerPage < 1 THEN 10 ELSE req.PerPage
             IN  IF listed.err # nil
                 THEN [status |-> 500, statements |-> listed.statements]
                 ELSE [status |-> 200, statements |-> listed.statements,
                       body |-> ToListResponse(page, perPage, listed.total)]

\* {Entity}Controller.List
controller_List(usecase, query, db) ==
    LET req == bind_ListRequest(query)
    IN  IF "err" \in DOMAIN req THEN [status |-> 400, statements |-> <<>>]
        ELSE LET listed == usecase_List(usecase, req, db)
                 page == IF req.Page < 1 THEN 1 ELSE req.Page
                 perPage == IF req.PerPage < 1 THEN 20 ELSE req.PerPage
             IN  IF listed.err # nil
                 THEN [status |-> 500, statements |-> listed.statements]
                 ELSE [status |-> 200, statements |-> listed.statements,
                       body |-> ToListResponse(page, perPage, listed.total)]

\* ShouldBindJSON on Update{Entity}Request: a member is nil unless the body has
\* its json key
bind_UpdateRequest(dto, body) ==
    LET members == { dto.update_fields[i].ident : i \in 1..Len(dto.update_fields) }
        json(member) ==
            dto.update_fields[CHOOSE i \in 1..Len(dto.update_fields) :
                                  dto.update_fields[i].ident = member].json
    IN  [member \in members |->
            IF json(member) \in DOMAIN body THEN body[json(member)] ELSE nil]

\* {Entity}Usecase.Update on the stored row; Updates fails on a key that is no
\* column, and when the database fails
usecase_Update(usecase, stored, req, db_fails) ==
    LET first == [op |-> "First"]
        set == { i \in 1..Len(usecase.update_map) : req[usecase.update_map[i].guard] # nil }
        keys == { usecase.update_map[i].key : i \in set }
        value(key) ==
            req[usecase.update_map[CHOOSE i \in set : usecase.update_map[i].key = key].from]
        updates == [key \in keys |-> value(key)]
        update == [op |-> "Updates", values |-> updates]
    IN  IF stored = NoRow
        THEN [err |-> "record not found", statements |-> <<first>>, row |-> stored]
        ELSE IF keys = {}
        THEN [err |-> nil, statements |-> <<first>>, row |-> stored]
        ELSE IF db_fails \/ ~(keys \subseteq DOMAIN stored)
        THEN [err |-> "Updates", statements |-> <<first, update>>, row |-> stored]
        ELSE [err |-> nil, statements |-> <<first, update>>, row |-> updates @@ stored]

\* {Entity}Controller.Update
controller_Update(dto, usecase, stored, request) ==
    IF request.malformed
    THEN [status |-> 400, statements |-> <<>>, row |-> stored]
    ELSE LET updated == usecase_Update(usecase, stored, bind_UpdateRequest(dto, request.body),
                                       request.db_fails)
         IN  IF updated.err # nil
             THEN [status |-> 500, statements |-> updated.statements, row |-> updated.row]
             ELSE [status |-> 200, statements |-> updated.statements, row |-> updated.row,
                   body |-> updated.row]

Pages == {-1, 0, 1, 3}

PerPages == {-1, 0, 1, 20, 100, 101}

Totals == {0, 1, 40, 45}

Searches == {"", "abc"}

Values == {"v1", "v2"}

\* the JSON bodies of an update: any of the fields, each with a value
Bodies(dto) ==
    LET names == { dto.update_fields[i].json : i \in 1..Len(dto.update_fields) }
    IN  UNION { [present -> Values] : present \in SUBSET names }

\* A generation run of the Go stack has completed, and its module is served on a
\* database that holds the entity's row or does not.
ServeInit ==
    /\ tokens \in DeployedTokens
    /\ args = [stack |-> "go", name |-> "product", fields |-> FieldSpec(tokens),
               project |-> "github.com/user/app", validators |-> FALSE]
    /\ invocation = 1
    /\ pc = "done"
    /\ self = new_generator(args.stack, args.name, args.fields, args.project, args.validators)
    /\ LET steps == generate(args.stack, self)
       IN  /\ k = Len(steps) + 1
           /\ files = [i \in 1..Len(steps) |-> steps[i].path]
           /\ fs = [path \in { steps[i].path : i \in 1..Len(steps) } |->
                       <<steps[CHOOSE i \in 1..Len(steps) : steps[i].path = path].content>>]
    /\ pending = NoStep
    /\ error = "none"
    /\ produced = <<Artifacts(files, fs)>>
    /\ call = NoCall
    /\ result = NoResult
    /\ row \in {NoRow, RowOf(Deployed("GoGenerator._model_template"), "v0")}

\* GET on the collection route
List ==
    /\ call = NoCall
    /\ \E page \in Pages, per_page \in PerPages, search \in Searches, total \in Totals,
          fails \in {"none", "Count", "Find"} :
        /\ call' = [fn |-> "List", page |-> page, per_page |-> per_page, search |-> search,
                    total |-> total, fails |-> fails]
        /\ result' = controller_List(Deployed("GoGenerator._usecase_template"),
                                     [page |-> page, per_page |-> per_page, search |-> search],
                                     [total |-> total, fails |-> fails])
    /\ UNCHANGED <<run, row>>

\* the usecase's exported List called by other code of the project
Usecase_List ==
    /\ call = NoCall
    /\ \E page \in Pages, per_page \in PerPages, search \in Searches, total \in Totals,
          fails \in {"none", "Count", "Find"} :
        /\ call' = [fn |-> "Usecase.List", page |-> page, per_page |-> per_page,
                    search |-> search, total |-> total, fails |-> fails]
        /\ result' = usecase_List(Deployed("GoGenerator._usecase_template"),
                                  [Page |-> page, PerPage |-> per_page, Search |-> search],
                                  [total |-> total, fails |-> fails])
    /\ UNCHANGED <<run, row>>

\* PUT on the item route
Update ==
    /\ call = NoCall
    /\ \E body \in Bodies(Deployed("GoGenerator._dto_template")),
          malformed \in BOOLEAN, db_fails \in BOOLEAN :
        LET request == [body |-> body, malformed |-> malformed, db_fails |-> db_fails]
            updated == controller_Update(Deployed("GoGenerator._dto_template"),
                                         Deployed("GoGenerator._usecase_template"),
                                         row, request)
        IN  /\ call' = [fn |-> "Update", body |-> body, malformed |-> malformed,
                        db_fails |-> db_fails]
            /\ result' = [field \in DOMAIN updated \ {"row"} |-> updated[field]]
            /\ row' = updated.row
    /\ UNCHANGED run

ServeNext ==
    \/ List
    \/ Usecase_List
    \/ Update

ServeSpec == ServeInit /\ [][ServeNext]_vars

(***************************************************************************)
(* Two generation runs whose names differ in letter case only: the second  *)
(* run has the command line of the first but for the case of the name.     *)
(***************************************************************************)
\* names that differ in letter case only, family by family
CaseFamilies ==
    { {"user_profile", "User_Profile", "USER_PROFILE"},
      {"box", "Box", "bOX"},
      {"userprofile", "userProfile", "UserProfile"} }

CaseNames == UNION CaseFamilies

CaseTokens ==
    { <<Field("sku", TRUE, "string", ""), Field("qty", TRUE, "int64", "?")>>,
      <<Field("user_id", TRUE, "string", ""), Token(" ", "title", FALSE, "", "", "", "")>> }

CaseInit ==
    /\ tokens \in CaseTokens
    /\ args \in [stack : GENERATORS, name : CaseNames, fields : {FieldSpec(tokens)},
                 project : {"github.com/user/app"}, validators : BOOLEAN]
    /\ invocation = 1
    /\ StartOfRun
    /\ fs = NoFiles
    /\ produced = <<>>
    /\ NothingServed

\* the command is run again, on the same output directory, with the name in
\* another letter case
RerunInOtherCase ==
    /\ pc = "done"
    /\ invocation = 1
    /\ \E name \in CaseNames :
        /\ name # args.name
        /\ \E family \in CaseFamilies : {name, args.name} \subseteq family
        /\ args' = [args EXCEPT !.name = name]
    /\ invocation' = 2
    /\ pc' = "start"
    /\ self' = NoGenerator
    /\ k' = 1
    /\ pending' = NoStep
    /\ files' = <<>>
    /\ error' = "none"
    /\ UNCHANGED <<tokens, fs, produced>>
    /\ UNCHANGED <<call, result, row>>

CaseNext ==
    \/ SelectStack
    \/ Construct
    \/ Render
    \/ WriteFile
    \/ Finish
    \/ RerunInOtherCase

CaseSpec == CaseInit /\ [][CaseNext]_vars

(***************************************************************************)
(* What the claims are stated with.                                        *)
(***************************************************************************)
\* A token that is empty once its white space is trimmed.
Blank(t) == t.name = "" /\ ~t.colon /\ t.marks = ""

NonBlank(t) == ~Blank(t)

NamesOf(fields) == [i \in 1..Len(fields) |-> fields[i].name]

\* The names written in the non-empty tokens, in the order of the input.
TokenNames == NamesOf(Filter(NonBlank, tokens))

Distinct(names) == \A i, j \in 1..Len(names) : i # j => names[i] # names[j]

\* the default type of a stack's parser, as the specification gives it
DefaultType(stack) == IF stack = "flutter" THEN "String" ELSE "string"

\* The descriptors the parsing rule gives for the tokens the input was written from.
ExpectedDescriptors ==
    LET described(t) == [name |-> t.name,
                         type |-> IF t.colon THEN t.type ELSE DefaultType(args.stack),
                         required |-> t.marks = ""]
    IN  Map(described, Filter(NonBlank, tokens))

Constructed == pc = "generate" /\ self # NoGenerator

\* The last text written to the i-th file of the run.
WrittenContent(i) == fs[files[i]][Len(fs[files[i]])]

\* C1: two runs of the same command line (stack, name, fields, project, options)
\* produce the same ordered sequence of (path, content) artifacts.
C1_Deterministic == \A i, j \in 1..Len(produced) : produced[i] = produced[j]

C1_Witness ==
    /\ invocation = 2
    /\ pc = "done"
    /\ Len(produced) = 2
    /\ Len(produced[2]) > 0

C4_SupportedStacksAccepted == pc = "exit" => args.stack \notin SupportedStacks

\* C5: for every stack, the parsed descriptors are those of the non-empty tokens in
\* input order: name before the first ":", type after it or the stack's default
\* type, required exactly when the token has no trailing "?".
C5_ParsingRule == Constructed => self.fields = ExpectedDescriptors

C5_Witness ==
    /\ Constructed
    /\ args.stack = "flutter"
    /\ Len(tokens) = 2
    /\ tokens[1] = Field("a", FALSE, "", "?")
    /\ tokens[2] = Field("id", TRUE, "x:y", "")
    /\ self.fields = <<[name |-> "a", type |-> "String", required |-> FALSE],
                       [name |-> "id", type |-> "x:y", required |-> TRUE]>>

\* C6: parse_fields never fails and returns one descriptor per token that is
\* non-empty after trimming, in input order; empty tokens give no descriptor.
C6_OneDescriptorPerToken ==
    /\ pc # "raised"
    /\ Constructed =>
          /\ Len(self.fields) = Len(Filter(NonBlank, tokens))
          /\ NamesOf(self.fields) = TokenNames

C6_Witness ==
    /\ Constructed
    /\ Len(tokens) = 2
    /\ Blank(tokens[1])
    /\ tokens[2] = Field("a", TRUE, "int", "")
    /\ Len(self.fields) = 1

\* C7, as claimed: no two descriptors of a parsed sequence have the same name.
C7_NamesUnique == Constructed => Distinct(NamesOf(self.fields))

\* C7, amended: parse_fields keeps one descriptor per non-empty token, repeated
\* names included, so the names of the parsed sequence are pairwise distinct
\* exactly when the names written in the non-empty tokens are.
C7_NamesUniqueIffTokensAre ==
    Constructed => (Distinct(NamesOf(self.fields)) <=> Distinct(TokenNames))

C7_Witness ==
    /\ Constructed
    /\ Len(self.fields) = 2
    /\ self.fields[1].name = "a"
    /\ self.fields[2].name = "a"

\* The columns of field names an artifact lists: for each list of the template,
\* the names as written ("raw"), as struct members ("pascal") or as Dart members
\* ("camel"); `all` is FALSE for a list that keeps only some of the fields.
Column(convention, all, names) == [convention |-> convention, all |-> all, names |-> names]

Pick(items, key) == [i \in 1..Len(items) |-> items[i][key]]

FieldColumns(content) ==
    CASE content.template = "GoGenerator._model_template" ->
            <<Column("raw", TRUE, Pick(content.fields_str, "json")),
              Column("pascal", TRUE, Pick(content.fields_str, "ident"))>>
      [] content.template = "GoGenerator._dto_template" ->
            <<Column("raw", TRUE, Pick(content.create_fields, "json")),
              Column("pascal", TRUE, Pick(content.create_fields, "ident")),
              Column("raw", TRUE, Pick(content.update_fields, "json")),
              Column("pascal", TRUE, Pick(content.update_fields, "ident")),
              Column("raw", TRUE, Pick(content.response_fields, "json")),
              Column("pascal", TRUE, Pick(content.response_fields, "ident")),
              Column("pascal", TRUE, Pick(content.mappings, "ident"))>>
      [] content.template = "GoGenerator._usecase_template" ->
            <<Column("pascal", TRUE, Pick(content.create_map, "ident")),
              Column("raw", TRUE, Pick(content.update_map, "key")),
              Column("pascal", TRUE, Pick(content.update_map, "guard"))>>
      [] content.template = "LaravelGenerator._model_template" ->
            <<Column("raw", TRUE, Pick(content.fillable, "name")),
              Column("raw", FALSE, Pick(content.casts, "name"))>>
      [] content.template = "LaravelGenerator._migration_template" ->
            <<Column("raw", TRUE, Pick(content.columns, "name"))>>
      [] content.template = "LaravelGenerator._request_template" ->
            <<Column("raw", TRUE, Pick(content.rules, "name"))>>
      [] content.template = "LaravelGenerator._resource_template" ->
            <<Column("raw", TRUE, Pick(content.fields, "name"))>>
      [] content.template = "ReactGenerator._types_template" ->
            <<Column("raw", TRUE, Pick(content.fields, "name")),
              Column("raw", TRUE, Pick(content.create_fields, "name")),
              Column("raw", TRUE, Pick(content.update_fields, "name"))>>
      [] content.template = "ReactGenerator._form_component_template" ->
            <<Column("raw", TRUE, Pick(content.fields, "name")),
              Column("pascal", TRUE, Pick(content.fields, "placeholder"))>>
      [] content.template = "FlutterGenerator._model_template" ->
            <<Column("camel", TRUE, Pick(content.constructor_params, "ident"))>>
      [] OTHER -> <<>>

\* names as a column of the given convention writes them
Written(convention, names) ==
    CASE convention = "raw" -> names
      [] convention = "pascal" -> Map(to_pascal_case, names)
      [] convention = "camel" -> Map(to_camel_case, names)

\* part can be had from whole by leaving items out, the order kept
RECURSIVE IsSubsequence(_, _)
IsSubsequence(part, whole) ==
    IF part = <<>> THEN TRUE
    ELSE IF whole = <<>> THEN FALSE
    ELSE IF Head(part) = Head(whole) THEN IsSubsequence(Tail(part), Tail(whole))
    ELSE IsSubsequence(part, Tail(whole))

InTokenOrder(column) ==
    IF column.all
    THEN column.names = Written(column.convention, TokenNames)
    ELSE IsSubsequence(column.names, Written(column.convention, TokenNames))

\* C8: every artifact of a run that lists the entity's fields lists them in the
\* order of the parsed descriptors, which is the order of the tokens of the input.
C8_FieldOrderKept ==
    /\ Constructed => NamesOf(self.fields) = TokenNames
    /\ \A i \in 1..Len(files) :
          LET columns == FieldColumns(WrittenContent(i))
          IN  \A c \in 1..Len(columns) : InTokenOrder(columns[c])

C8_Witness ==
    /\ pc = "done"
    /\ args.stack = "react"
    /\ args.fields = "sku:string,qty:int64?"
    /\ \E i \in 1..Len(files) :
          /\ WrittenContent(i).template = "ReactGenerator._form_component_template"
          /\ Pick(WrittenContent(i).fields, "name") = <<"sku", "qty">>

\* the kebab-case plural of each entity name of the runs
KebabPlural ==
    ("order_item" :> "order-items") @@ ("category" :> "categories") @@
    ("Box" :> "boxes") @@ ("" :> "s")

HasRoute(content) == "collection_path" \in DOMAIN content

\* C9: wherever a route is rendered (Go wiring, React API client, Flutter
\* repository) the collection path is the kebab-case plural of the module name and
\* the item path is that path followed by an identifier placeholder segment.
C9_RoutePath ==
    \A i \in 1..Len(files) :
       LET content == WrittenContent(i)
       IN  HasRoute(content) =>
              /\ content.collection_path = "/" \o KebabPlural[args.name]
              /\ \E placeholder \in {":id", "${id}", "$id"} :
                    content.item_path = content.collection_path \o "/" \o placeholder

C9_Witness ==
    /\ pc = "done"
    /\ args.name = "order_item"
    /\ args.stack = "flutter"
    /\ \E i \in 1..Len(files) :
          /\ HasRoute(WrittenContent(i))
          /\ WrittenContent(i).collection_path = "/order-items"
          /\ WrittenContent(i).item_path = "/order-items/$id"

\* C10: for every registered stack, name and field string, the construction of
\* the generator and the rendering of every artifact end without raising: no run
\* is ever ended by an exception of the construction or of a template.
C10_NeverRaises ==
    /\ pc # "raised"
    /\ error \notin {"IndexError", "ValueError", "KeyError"}

C10_Witness ==
    /\ pc = "done"
    /\ args.name = ""
    /\ args.fields = ":"
    /\ args.stack = "flutter"
    /\ Len(files) = 4
\* C11: the type lookups are total: a token that is a key of the stack's table
\* gives the table's entry, every other token the stack's fixed default
\* ('varchar(255)' for Go, 'string' for Laravel); no lookup raises and no lookup
\* changes the table.
C11_LookupTotal ==
    /\ call.fn = "_gorm_type" =>
        /\ result.value # KeyError
        /\ result.value = IF call.token \in DOMAIN Go_type_map
                          THEN Go_type_map[call.token] ELSE "varchar(255)"
        /\ result.type_map = Go_type_map
        /\ call.token = "int64" => result.value = "bigint"
        /\ call.token \in {"money", "", "String", "datetime"} => result.value = "varchar(255)"
    /\ call.fn = "_migration_type" =>
        /\ result.value # KeyError
        /\ result.value = IF call.token \in DOMAIN Laravel_type_map
                          THEN Laravel_type_map[call.token] ELSE "string"
        /\ result.type_map = Laravel_type_map
        /\ call.token = "datetime" => result.value = "dateTime"
        /\ call.token \in {"money", "", "String", "int64"} => result.value = "string"

C11_Witness ==
    /\ call.fn = "_migration_type"
    /\ call.token = "money"
    /\ call.token \notin DOMAIN Laravel_type_map
    /\ result.value = "string"

\* The runs of words between the delimiters of a name, the empty runs included.
RECURSIVE SegmentsOf(_)
SegmentsOf(parts) ==
    IF parts = <<>> THEN << <<>> >>
    ELSE LET rest == SegmentsOf(Tail(parts))
         IN  IF Head(parts) \in Delimiters
             THEN << <<>> >> \o rest
             ELSE << <<Head(parts)>> \o rest[1] >> \o Tail(rest)

IsNonEmpty(segment) == segment # <<>>

NonEmptySegments(parts) == Filter(IsNonEmpty, SegmentsOf(parts))

\* each word with its first character in upper case and the others as written
FirstUpper ==
    ("user" :> "User") @@ ("profile" :> "Profile") @@ ("Profile" :> "Profile") @@ ("ID" :> "ID")

\* each word in lower case
LowerCased ==
    ("user" :> "user") @@ ("profile" :> "profile") @@ ("Profile" :> "profile") @@ ("ID" :> "id")

\* each word with its first character in upper case and the others in lower case
FirstUpperRestLower ==
    ("user" :> "User") @@ ("profile" :> "Profile") @@ ("Profile" :> "Profile") @@ ("ID" :> "Id")

LowerWord(word) == LowerCased[word]

\* a segment with its first character capitalized and nothing else changed
FirstCapitalized(segment) == FirstUpper[Head(segment)] \o join("", Tail(segment))

\* a segment with its first character capitalized and the others lower-cased
CapitalizedSegment(segment) ==
    FirstUpperRestLower[Head(segment)] \o join("", Map(LowerWord, Tail(segment)))

LowerSegment(segment) == join("", Map(LowerWord, segment))

\* C13, as claimed: to_pascal_case splits on '-' and '_', skips the empty segments,
\* capitalizes the first character of each segment and concatenates the segments.
C13_PascalCase ==
    call.fn = "to_pascal_case" =>
        /\ result.value = join("", Map(FirstCapitalized, NonEmptySegments(call.parts)))
        /\ call.name = "user_profile" => result.value = "UserProfile"

\* C13, amended: to_pascal_case splits on '-' and '_', skips the empty segments,
\* capitalizes the first character of each segment, lower-cases the other characters
\* of the segment, and concatenates; it does not split at a case boundary.
C13_PascalCaseLowersRest ==
    call.fn = "to_pascal_case" =>
        /\ result.value = join("", Map(CapitalizedSegment, NonEmptySegments(call.parts)))
        /\ call.name = "user_profile" => result.value = "UserProfile"
        /\ call.name = "userProfile" => result.value = "Userprofile"

C13_Witness ==
    /\ call.fn = "to_pascal_case"
    /\ call.parts = <<"_", "user", "Profile">>
    /\ result.value = "Userprofile"

\* C14: to_camel_case splits like to_pascal_case, skipping the empty segments,
\* lower-cases the first segment and capitalizes every later one; the result of
\* a name with a non-empty segment begins with the first such segment in lower case.
C14_CamelCase ==
    call.fn = "to_camel_case" =>
        LET segments == NonEmptySegments(call.parts)
        IN  /\ result.value # IndexError
            /\ result.value =
                   IF segments = <<>> THEN ""
                   ELSE LowerSegment(Head(segments))
                        \o join("", Map(CapitalizedSegment, Tail(segments)))
            /\ call.name = "user_profile" => result.value = "userProfile"

\* the text a part becomes in snake case and in kebab case
SnakePart(part) == IF part \in Delimiters THEN "_" ELSE LowerCased[part]

KebabPart(part) == IF part \in Delimiters THEN "-" ELSE LowerCased[part]

\* the name in lower case, its delimiters kept
LowerPart(part) == IF part \in Delimiters THEN part ELSE LowerCased[part]

LowerName(parts) == join("", Map(LowerPart, parts))

\* C15: to_snake_case only lower-cases and replaces '-' by '_', to_kebab_case only
\* lower-cases and replaces '_' by '-'; no separator is inserted at a case boundary,
\* so the output is as long as the input and differs from the lower-cased input
\* only where the input has a delimiter.
C15_SnakeKebab ==
    /\ call.fn = "to_snake_case" =>
        /\ result.value = join("", Map(SnakePart, call.parts))
        /\ Len(result.value) = Len(call.name)
        /\ \A i \in 1..Len(call.name) :
               char(call.name, i) \notin {"-", "_"}
                   => char(result.value, i) = char(LowerName(call.parts), i)
    /\ call.fn = "to_kebab_case" =>
        /\ result.value = join("", Map(KebabPart, call.parts))
        /\ Len(result.value) = Len(call.name)
        /\ \A i \in 1..Len(call.name) :
               char(call.name, i) \notin {"-", "_"}
                   => char(result.value, i) = char(LowerName(call.parts), i)

C15_Witness ==
    /\ call.fn = "to_snake_case"
    /\ call.parts = <<"user", "Profile", "-">>
    /\ result.value = "userprofile_"

\* the plural of a name, by its ending
PluralOfEnding ==
    ("" :> "s") @@ ("y" :> "ies") @@ ("s" :> "ses") @@ ("x" :> "xes") @@
    ("ch" :> "ches") @@ ("sh" :> "shes") @@ ("t" :> "ts") @@ ("ct" :> "cts") @@
    ("h" :> "hs") @@ ("ys" :> "yses") @@ ("sy" :> "sies")

\* C16: pluralize applies its rules in priority order: a name ending in 'y' loses
\* the 'y' and gains 'ies'; otherwise a name ending in 's', 'x', 'ch' or 'sh' gains
\* 'es'; otherwise 's' is appended (category, box, product, bus).
C16_Pluralize ==
    call.fn = "pluralize" =>
        /\ result.value = call.stem \o PluralOfEnding[call.ending]
        /\ call.name = "category" => result.value = "categories"
        /\ call.name = "box" => result.value = "boxes"
        /\ call.name = "product" => result.value = "products"
        /\ call.name = "bus" => result.value = "buses"

C16_Witness ==
    /\ call.fn = "pluralize"
    /\ call.name = "bush"
    /\ result.value = "bushes"

\* a name that ends in the foreign-key suffix
EndsInId(name) == Len(name) >= 3 /\ SubSeq(name, Len(name) - 2, Len(name)) = "_id"

\* The field the selection rule names: the first plain string field that is no
\* foreign key, else 'name'.
RuleSearchField(fields) ==
    LET qualifying == { i \in 1..Len(fields) :
                            fields[i].type = "string" /\ ~EndsInId(fields[i].name) }
    IN  IF qualifying = {} THEN "name"
        ELSE fields[CHOOSE i \in qualifying : \A j \in qualifying : i <= j].name

\* C17: the search column of the Go usecase's List is the name of the first field,
\* in declared order, of type exactly 'string' whose name does not end in '_id',
\* and 'name' when there is none, whether or not a field 'name' was declared.
C17_SearchField ==
    call.fn = "_usecase_template" =>
        /\ result.value.search_field = RuleSearchField(call.fields)
        /\ (Len(call.fields) = 2 /\ call.fields[1].name = "user_id"
                /\ call.fields[2].name = "title")
               => result.value.search_field = "title"
        /\ (\A i \in 1..Len(call.fields) : call.fields[i].name \in {"name", "body", "user_id"})
               => result.value.search_field = "name"

C17_Witness ==
    /\ call.fn = "_usecase_template"
    /\ Len(call.fields) = 2
    /\ call.fields[1].name = "user_id"
    /\ call.fields[2].name = "title"
    /\ result.value.search_field = "title"

\* the artifact kinds of a stack, in the order of its generate, options apart
KindsOf(stack) ==
    CASE stack = "go" ->
            <<"GoGenerator._model_template", "GoGenerator._dto_template",
              "GoGenerator._usecase_template", "GoGenerator._controller_template",
              "GoGenerator._init_template">>
      [] stack = "laravel" ->
            <<"LaravelGenerator._model_template", "LaravelGenerator._migration_template",
              "LaravelGenerator._controller_template", "LaravelGenerator._request_template",
              "LaravelGenerator._resource_template",
              "LaravelGenerator._create_usecase_template",
              "LaravelGenerator._update_usecase_template",
              "LaravelGenerator._delete_usecase_template">>
      [] stack = "react" ->
            <<"ReactGenerator._types_template", "ReactGenerator._api_template",
              "ReactGenerator._hooks_template", "ReactGenerator._list_component_template",
              "ReactGenerator._form_component_template", "ReactGenerator._index_template">>
      [] stack = "flutter" ->
            <<"FlutterGenerator._model_template", "FlutterGenerator._repository_template",
              "FlutterGenerator._provider_template", "FlutterGenerator._screen_template">>

\* C12: options only add or remove whole artifacts: a Go run with the validators
\* option writes the ordered artifacts (paths and contents) of the run without it,
\* followed by one validator artifact; for every other stack the option changes
\* nothing; the artifact kinds of a stack always come in the same order.
C12_OptionsAddWholeArtifacts ==
    pc = "done" =>
        LET written == produced[Len(produced)]
            without == generate(self.class, [self EXCEPT !.options = [validators |-> FALSE]])
            added == IF self.class = "go" /\ args.validators THEN 1 ELSE 0
        IN  /\ Len(written) = Len(without) + added
            /\ \A i \in 1..Len(without) :
                   i <= Len(written) =>
                       /\ written[i].path = without[i].path
                       /\ written[i].content = <<without[i].content>>
                       /\ without[i].content.template = KindsOf(self.class)[i]
            /\ Len(without) = Len(KindsOf(self.class))
            /\ (added = 1 /\ Len(written) > 0) =>
                   /\ written[Len(written)].content
                          = <<Go_validator_template(self)>>
                   /\ written[Len(written)].path
                          = PathOf(<<"internal", "modules", self.module_name, "validators",
                                     self.module_name \o "_validator.go">>)

C12_Witness ==
    /\ pc = "done"
    /\ args.stack = "go"
    /\ args.validators
    /\ args.name = "order_item"
    /\ Len(produced[Len(produced)]) = 6

\* C18: the Laravel controller's index filters its search on the field the
\* selection rule names for the parsed descriptors (the first plain string field
\* whose name does not end in '_id', else 'name'), as the Go usecase does.
C18_LaravelSearchField ==
    \A i \in 1..Len(files) :
        (/\ files[i] \in DOMAIN fs
         /\ fs[files[i]] # <<>>
         /\ WrittenContent(i).template = "LaravelGenerator._controller_template")
            => /\ WrittenContent(i).search_field = RuleSearchField(self.fields)
               /\ WrittenContent(i).search_field = Go_search_field(self.fields)

\* C19: pagination of the generated Go list operation: the usecase and the
\* controller both replace a page below 1 by 1 and a page size below 1 by 20, so
\* the page and page size reported are those used for offset and limit and the
\* divisor is at least 1; totalPages is total divided by the page size, plus one
\* exactly when the remainder is not zero (45 by 20 gives 3, 40 by 20 gives 2).
C19_Pagination ==
    /\ (call.fn = "List"
            /\ result.status = 200) =>
        LET body == result.body
            used == result.statements[2]
        IN  /\ "panic" \notin DOMAIN body
            /\ body.Page = IF call.page < 1 THEN 1 ELSE call.page
            /\ body.PerPage = IF call.per_page < 1 THEN 20 ELSE call.per_page
            /\ body.PerPage >= 1
            /\ used.op = "Find"
            /\ used.limit = body.PerPage
            /\ used.offset = (body.Page - 1) * body.PerPage
            /\ body.Total = call.total
            /\ body.TotalPages = (call.total \div body.PerPage)
                                 + (IF call.total % body.PerPage # 0 THEN 1 ELSE 0)
            /\ body.TotalPages * body.PerPage >= call.total
            /\ (body.TotalPages - 1) * body.PerPage < call.total \/ call.total = 0
            /\ (call.total = 45 /\ body.PerPage = 20) => body.TotalPages = 3
            /\ (call.total = 40 /\ body.PerPage = 20) => body.TotalPages = 2
    /\ (call.fn = "Usecase.List"
            /\ result.err = nil) =>
        LET used == result.statements[2]
        IN  /\ used.limit = IF call.per_page < 1 THEN 20 ELSE call.per_page
            /\ used.limit >= 1
            /\ used.offset = ((IF call.page < 1 THEN 1 ELSE call.page) - 1) * used.limit
    /\ (call.fn = "List" /\ call.fails = "none"
            /\ call.page \in {0, 1, 3} /\ call.per_page \in {0, 1, 20, 100}) =>
        result.status = 200

C19_Witness ==
    /\ call.fn = "List"
    /\ call.page = 0
    /\ call.per_page = 0
    /\ call.total = 45
    /\ result.status = 200
    /\ result.body.PerPage = 20
    /\ result.body.TotalPages = 3

\* the names of the declared fields
DeclaredNames == { self.fields[i].name : i \in 1..Len(self.fields) }

\* a Go type that is a pointer to a type that is no pointer
SinglePointer(type) == char(type, 1) = "*" /\ (Len(type) < 2 \/ char(type, 2) # "*")

\* C20: partial update of the generated Go module: every declared field is an
\* optional, single-pointer member of the update request; the update set holds
\* exactly the keys of the fields present in the request, with the request's
\* values; a field absent from the request keeps its value on the row; and when
\* no field is present no update is applied.
C20_PartialUpdate ==
    [][ (call'.fn = "Update" /\ ~call'.malformed
            /\ ~call'.db_fails /\ row # NoRow) =>
          LET dto == Deployed("GoGenerator._dto_template")
              present == DOMAIN call'.body
          IN  /\ { dto.update_fields[i].json : i \in 1..Len(dto.update_fields) }
                     = DeclaredNames
              /\ \A i \in 1..Len(dto.update_fields) :
                     SinglePointer(dto.update_fields[i].type)
              /\ result'.status = 200
              /\ IF present = {}
                 THEN /\ result'.statements = <<[op |-> "First"]>>
                      /\ row' = row
                 ELSE result'.statements
                          = <<[op |-> "First"], [op |-> "Updates", values |-> call'.body]>>
              /\ DOMAIN row' = DOMAIN row
              /\ \A name \in DeclaredNames :
                     /\ name \in DOMAIN row'
                     /\ row'[name] = IF name \in present THEN call'.body[name] ELSE row[name]
      ]_vars

C20_Witness ==
    /\ call.fn = "Update"
    /\ DOMAIN call.body = {"sku"}
    /\ result.status = 200
    /\ Len(result.statements) = 2
    /\ row # NoRow
    /\ row["sku"] = call.body["sku"]
    /\ row["qty"] = "v0"

\* the json keys of the fields the generator manages in the response
ManagedKeys == {"id", "created_at"}

\* the declared types that are pointers already
PointerTypes == {"*string", "*int"}

\* the type a declared field has in the response
ResponseType(f) ==
    IF f.required THEN f.type
    ELSE IF f.type \in PointerTypes THEN f.type
    ELSE "*" \o f.type

\* The response declares the identifier, then the declared fields in declared
\* order, each with its response type, then the creation timestamp.
ResponseMirrorsFields ==
    LET struct == Go_response_struct(result.value)
        n == Len(call.fields)
    IN  /\ Len(struct) = n + 2
        /\ struct[1].json = "id"
        /\ struct[n + 2].json = "created_at"
        /\ \A i \in 1..n :
               /\ struct[i + 1].json = call.fields[i].name
               /\ struct[i + 1].type = ResponseType(call.fields[i])
               /\ struct[i + 1].type # "*" \o "*" \o lstrip(call.fields[i].type, "*")

\* the positions of the response at which the key is declared
DeclaredAt(struct, key) == { i \in 1..Len(struct) : struct[i].json = key }

\* C21, as claimed: the response declares the identifier, the declared fields in
\* order and the creation timestamp, a field that is not required in the nullable
\* form of its type and never a doubly nullable one; the fields the generator
\* manages are never among the declared fields, so none is declared twice.
C21_ResponseShape ==
    call.fn = "_dto_template" =>
        /\ ResponseMirrorsFields
        /\ \A i \in 1..Len(call.fields) : call.fields[i].name \notin ManagedKeys
        /\ \A key \in ManagedKeys :
               Cardinality(DeclaredAt(Go_response_struct(result.value), key)) = 1

\* C21, amended: the response declares the identifier, the declared fields in
\* order and the creation timestamp, with the types as claimed; a declared field
\* named as a managed one is declared beside it, so a managed key is declared
\* once exactly when no declared field has its name.
C21_ResponseShapeKeepsManagedNames ==
    call.fn = "_dto_template" =>
        /\ ResponseMirrorsFields
        /\ \A key \in ManagedKeys :
               Cardinality(DeclaredAt(Go_response_struct(result.value), key))
                   = 1 + Cardinality({ i \in 1..Len(call.fields) : call.fields[i].name = key })

C21_Witness ==
    /\ call.fn = "_dto_template"
    /\ Len(call.fields) = 2
    /\ call.fields[1].name = "qty"
    /\ call.fields[2].name = "id"
    /\ Go_response_struct(result.value)[2].type = "*int64"
    /\ Cardinality(DeclaredAt(Go_response_struct(result.value), "id")) = 2

\* the module name and the entity identifier of each family of names
IdentifiersOf(name) ==
    IF name \in {"user_profile", "User_Profile", "USER_PROFILE"}
    THEN [module_name |-> "user_profile", entity_name |-> "UserProfile"]
    ELSE IF name \in {"box", "Box", "bOX"}
    THEN [module_name |-> "box", entity_name |-> "Box"]
    ELSE [module_name |-> "userprofile", entity_name |-> "Userprofile"]

\* C22: the artifacts depend on the entity name only through its lower-cased
\* form: two runs whose names differ only in letter case derive the same module
\* name and the same entity identifier and produce the same artifact paths and
\* contents, for every stack, field string, project and options.
C22_NameCaseIgnored ==
    /\ self # NoGenerator =>
        /\ self.module_name = IdentifiersOf(args.name).module_name
        /\ self.entity_name = IdentifiersOf(args.name).entity_name
    /\ Len(produced) = 2 => produced[1] = produced[2]

C22_Witness ==
    /\ invocation = 2
    /\ pc = "done"
    /\ args.name = "USER_PROFILE"
    /\ args.stack = "laravel"
    /\ Len(produced) = 2
    /\ Len(produced[2]) = 8
    /\ produced[1] = produced[2]

=============================================================================
